---- MODULE Spec2Model ----
(***************************************************************************)
(* PuppetMaster crawl4ai microservice: the CrawlerService singleton        *)
(* (service/crawler.py), the HTTP endpoints that call it                   *)
(* (routes/crawler_routes.py), the job worker (workers/crawler_worker.py)  *)
(* and the application's startup/shutdown hooks (app.py).                  *)
(*                                                                         *)
(* Calls are made one after the other.  Every action is one whole call of  *)
(* an entry point: the inbound request or job and the behaviour of the     *)
(* browser driver, the content extractor and the document fetch during     *)
(* that call are its inputs.  The variables hold the service's state and   *)
(* what the last call did and handed back.                                 *)
(***************************************************************************)
EXTENDS Integers, Sequences, FiniteSets, TLC

\* ------------------------------------------------------------------ bounds
\* AsyncWebCrawler instances that initialize() may construct in one run.
MaxCrawlers == 2
\* Elements a selector matches on a page.
MaxElems == 2
\* Requests and jobs in progress at the same time.
MaxTasks == 2

\* ------------------------------------------------------------ Python values
\* Python's None, where a string is expected.
None == "<None>"
\* self.crawler = None
NoCrawler == 0

\* A returned value is a dict (a function from its keys) or a list.
PyDict(d) == [isDict |-> TRUE, d |-> d, l |-> <<>>]
PyList(l) == [isDict |-> FALSE, d |-> <<>>, l |-> l]
NoVal == PyList(<<>>)

\* key in dict
HasKey(v, k) == v.isDict /\ k \in DOMAIN v.d
\* Python's truth value of a string or None.
Truthy(x) == x # None /\ x # ""

\* The function f as a table: its values are computed once, not at every use.
Table(f) == f @@ <<>>

\* ------------------------------------------------------------ Python strings
\* s.find(sub), from 1: the least index at or after i where sub occurs in s, 0
\* when there is none.
RECURSIVE FindFrom(_, _, _)
FindFrom(s, sub, i) ==
  IF i + Len(sub) - 1 > Len(s) THEN 0
  ELSE IF SubSeq(s, i, i + Len(sub) - 1) = sub THEN i
  ELSE FindFrom(s, sub, i + 1)
Find(s, sub) == FindFrom(s, sub, 1)
\* sub in s
Contains(s, sub) == Find(s, sub) # 0
\* s.startswith(p)
StartsWith(s, p) == Len(s) >= Len(p) /\ SubSeq(s, 1, Len(p)) = p
\* s.endswith(p)
EndsWith(s, p) == Len(s) >= Len(p) /\ SubSeq(s, Len(s) - Len(p) + 1, Len(s)) = p
\* s.replace(old, ''): every occurrence of old removed, left to right.
RECURSIVE Remove(_, _)
Remove(s, old) ==
  IF old = "" \/ ~Contains(s, old) THEN s
  ELSE LET i == Find(s, old)
       IN SubSeq(s, 1, i - 1) \o Remove(SubSeq(s, i + Len(old), Len(s)), old)
\* s.split(sep)[0]
SplitHead(s, sep) ==
  IF Contains(s, sep) THEN SubSeq(s, 1, Find(s, sep) - 1) ELSE s
\* s.split(sep)[1], for s that holds sep
SplitSecond(s, sep) ==
  SplitHead(SubSeq(s, Find(s, sep) + Len(sep), Len(s)), sep)

\* ------------------------------------------------------------ state
VARIABLES
  crawler,      \* self.crawler: NoCrawler or the instance (1, 2, ...)
  created,      \* AsyncWebCrawler instances constructed by initialize() so far
  closed,       \* the instances whose close() has returned
  surface,      \* the entry point of the last call: startup, shutdown, http, job
  action,       \* the endpoint or the job's action name
  bag,          \* the request body or job_data of the last call
  method,       \* the CrawlerService method the last call invoked ("none": none)
  args,         \* the arguments it was invoked with
  obs,          \* what the service method did: see Obs
  ret,          \* the value the service method returned
  resp,         \* what the entry point handed to its caller
  world,        \* the outside world of the last call, where a single call records it
  tasks         \* the requests and jobs in progress, where calls run concurrently

vars == <<surface, action, method, crawler, created, closed, bag, args, obs, ret, resp, world,
          tasks>>

\* The service's own state, as the methods read and write it.
Svc == [crawler |-> crawler, created |-> created, closed |-> closed]


\* ------------------------------------------------------------ the outside world
\* An element of a page: its text content, inner HTML and attributes.
E1 == [text |-> "Blog A", html |-> "<b>Blog A</b>", attrs |-> [href |-> "/blog/a"]]
E2 == [text |-> "Other", html |-> "Other", attrs |-> [href |-> "http://other.com/y"]]
E3 == [text |-> "", html |-> "", attrs |-> <<>>]
Elems == {E1, E2, E3}
\* The elements a selector matches, in document order.
Pages == UNION {[1..n -> Elems] : n \in 0..MaxElems}
\* The pages the operations are driven over: an empty one, one with two links,
\* and one whose first element has neither text nor attributes.
SamplePages == {<<>>, <<E1, E2>>, <<E3, E1>>}
\* element.get_attribute(name): None when the element lacks the attribute
GetAttr(el, name) == IF name \in DOMAIN el.attrs THEN el.attrs[name] ELSE None

\* The URLs, selectors and filter conditions of the requests and jobs.
Url == "https://example.com/page"
Urls == {Url}
Selector == "a.item"
Conditions == {"href.includes(\"/blog/\")", "text.includes('Other')", "Blog"}

\* str(e) of an exception raised beneath the service: it may be empty.
Msgs == {"boom", ""}

\* What AsyncWebCrawler.arun hands back (CrawlResult).
ResOk == [success |-> TRUE, url |-> "http://a", extracted_content |-> "[{}]",
          error_message |-> None, markdown |-> "# A", pdf |-> "%PDF"]
ResText == [ResOk EXCEPT !.extracted_content = "not json"]
ResEmpty == [ResOk EXCEPT !.extracted_content = None, !.markdown = "", !.pdf = None]
ResFail == [success |-> FALSE, url |-> "http://a", extracted_content |-> None,
            error_message |-> "net::ERR_FAILED", markdown |-> None, pdf |-> None]
ResFailNoMsg == [ResFail EXCEPT !.error_message = None]
Results == {ResOk, ResText, ResEmpty, ResFail, ResFailNoMsg}

\* The outside world during one call.  fail: the step that raises ("none": no
\* step does); msg: the exception's str(); page: the elements the selector
\* matches; res: arun's result; visible: wait_for finds the element visible;
\* links: what each per-link crawl of crawl_links does; ctype: the document's
\* content-type header; closeFails: the shared crawler's close() raises.
Calm == [fail |-> "none", msg |-> "", page |-> <<>>, res |-> ResOk, visible |-> TRUE,
         links |-> <<>>, ctype |-> "application/pdf", closeFails |-> FALSE]

\* ------------------------------------------------------------ what a method did
\* init: what initialize() did (none: not called; reused; created; failed).
\* raised: the method raised to its caller, with message msg.
\* arunOn: the shared crawler instance arun ran on; arunOnClosed: that instance's
\* close() had returned before.  launched / open: Playwright browsers the method
\* launched, and those still open when it returned or raised.
\* handed: the schema handed to the extraction strategy (<<>>: none).
\* linkCrawlers / linkOpen: per-link crawlers crawl_links constructed, and those
\* not closed when it returned.  wrote: an artifact file was written.
\* decoded: a PDF decode was attempted.
Idle == [init |-> "none", raised |-> FALSE, msg |-> "", arunOn |-> NoCrawler,
         arunOnClosed |-> FALSE, launched |-> 0, open |-> 0, handed |-> <<>>,
         linkCrawlers |-> 0, linkOpen |-> 0, wrote |-> FALSE, decoded |-> FALSE]

\* The result of running a method: the service's state after it, what it did and
\* the value it returned (NoVal when it raised).
Out(s, o, v) == [s |-> s, obs |-> o, val |-> v]

\* {"error": str(e), "success": False}
ErrorDict(m) == PyDict([error |-> m, success |-> FALSE])

\* ------------------------------------------------------------ CrawlerService
\* A variant of initialize() that keeps a half-built instance when the
\* constructor raises.
initialize_keeps_broken(s, fails) ==
  IF s.crawler = NoCrawler
  THEN [s |-> [s EXCEPT !.crawler = s.created + 1, !.created = s.created + 1],
        init |-> IF fails THEN "failed" ELSE "created", raised |-> fails]
  ELSE [s |-> s, init |-> "reused", raised |-> FALSE]

\* A variant of initialize() that constructs a crawler at every call.
initialize_always_constructs(s, fails) ==
  IF fails
  THEN [s |-> s, init |-> "failed", raised |-> TRUE]
  ELSE [s |-> [s EXCEPT !.crawler = s.created + 1, !.created = s.created + 1],
        init |-> "created", raised |-> FALSE]

\* initialize(): constructs the crawler when there is none.  fails: the
\* constructor raises, and the assignment to self.crawler never happens.
initialize(s, fails) ==
  IF s.crawler = NoCrawler
  THEN IF fails
       THEN [s |-> s, init |-> "failed", raised |-> TRUE]
       ELSE [s |-> [s EXCEPT !.crawler = s.created + 1, !.created = s.created + 1],
             init |-> "created", raised |-> FALSE]
  ELSE [s |-> s, init |-> "reused", raised |-> FALSE]

\* A variant of close() that closes the crawler and keeps the reference to it.
close_keeps_reference(s, fails) ==
  IF s.crawler # NoCrawler
  THEN IF fails
       THEN [s |-> s, raised |-> TRUE, called |-> TRUE]
       ELSE [s |-> [s EXCEPT !.closed = s.closed \cup {s.crawler}],
             raised |-> FALSE, called |-> TRUE]
  ELSE [s |-> s, raised |-> FALSE, called |-> TRUE]

\* close(): closes the crawler when there is one, then forgets it.  fails:
\* crawler.close() raises, and self.crawler keeps the instance.
close(s, fails) ==
  IF s.crawler # NoCrawler
  THEN IF fails
       THEN [s |-> s, raised |-> TRUE, called |-> TRUE]
       ELSE [s |-> [s EXCEPT !.crawler = NoCrawler, !.closed = s.closed \cup {s.crawler}],
             raised |-> FALSE, called |-> TRUE]
  ELSE [s |-> s, raised |-> FALSE, called |-> TRUE]

\* `await self.initialize()` stands before the method's try block: what it
\* raises leaves the method uncaught.
InitRaised(i, e) == Out(i.s, [Idle EXCEPT !.init = i.init, !.raised = TRUE, !.msg = e.msg], NoVal)

\* self.crawler.arun(...) on the shared instance.
OnShared(o, s) == [o EXCEPT !.arunOn = s.crawler, !.arunOnClosed = s.crawler \in s.closed]

\* The schema dict crawl() hands to the strategy: the validated fields, plus
\* baseSelector (the caller's, or "body").
CrawlSchemaDict(schema) ==
  [name |-> IF "name" \in DOMAIN schema THEN schema.name ELSE "Extraction",
   fields |-> IF "fields" \in DOMAIN schema THEN schema.fields ELSE <<>>,
   baseSelector |-> IF "baseSelector" \in DOMAIN schema THEN schema.baseSelector ELSE "body"]

\* A variant of crawl() that closes the shared crawler when it is done.
crawl_closes_session(s, url, schema, strategy, e) ==
  LET i == initialize(s, e.fail = "init")
      o == [Idle EXCEPT !.init = i.init]
      c == close(i.s, FALSE)
  IN IF i.raised THEN InitRaised(i, e)
     ELSE Out(c.s, OnShared(o, i.s), ErrorDict(e.msg))

\* crawl(url, schema, strategy).  Steps that may raise: init, schema, arun.
crawl(s, url, schema, strategy, e) ==
  LET i == initialize(s, e.fail = "init")
      o == [Idle EXCEPT !.init = i.init]
      givesSchema == schema # <<>> /\ strategy \in {"JsonCssExtractionStrategy", "JsonXPathExtractionStrategy"}
      oh == [o EXCEPT !.handed = IF givesSchema THEN CrawlSchemaDict(schema) ELSE <<>>]
  IN IF i.raised THEN InitRaised(i, e)
     ELSE IF e.fail = "schema" THEN Out(i.s, o, ErrorDict(e.msg))
     ELSE IF e.fail = "arun" THEN Out(i.s, OnShared(oh, i.s), ErrorDict(e.msg))
     ELSE Out(i.s, OnShared(oh, i.s),
              PyDict([success |-> e.res.success, url |-> e.res.url,
                      extracted_content |-> e.res.extracted_content,
                      error_message |-> e.res.error_message]))

\* A variant of the exit that stops nothing.
PlaywrightExit_leaves_open(open) == open

\* `async with async_playwright()` is left: the driver is stopped, and with it
\* the browsers it launched that are still open.
PlaywrightExit(open) == 0

\* The browser accounting of a page-driving block.  done: the block reached its
\* `await browser.close()` and that call returned.
PageObs(o, e, done) ==
  LET launched == IF e.fail \in {"playwright", "launch"} THEN 0 ELSE 1
      left == IF done THEN launched - 1 ELSE launched
  IN [o EXCEPT !.launched = launched,
               !.open = IF e.fail = "playwright" THEN 0 ELSE PlaywrightExit(left)]

\* The steps of a page-driving block that may raise: entering async_playwright(),
\* the launch, the page's opening, navigation or query (goto), an element's
\* read (element), browser.close() (close).
PageSteps == {"playwright", "launch", "goto", "element", "close"}

\* One entry of extract's list, or <<>> when the type appends nothing.
ExtractEntry(el, extract_type, attribute) ==
  IF extract_type = "text" THEN <<el.text>>
  ELSE IF extract_type = "html" THEN <<el.html>>
  ELSE IF extract_type = "attribute" /\ Truthy(attribute) THEN <<GetAttr(el, attribute)>>
  ELSE <<>>

RECURSIVE ExtractAll(_, _, _)
ExtractAll(page, extract_type, attribute) ==
  IF page = <<>> THEN <<>>
  ELSE ExtractEntry(Head(page), extract_type, attribute)
         \o ExtractAll(Tail(page), extract_type, attribute)

\* extract(url, selector, extract_type, attribute): a list, or an error dict.
extract(s, url, selector, extract_type, attribute, e) ==
  LET i == initialize(s, e.fail = "init")
      o == [Idle EXCEPT !.init = i.init]
  IN IF i.raised THEN InitRaised(i, e)
     ELSE IF e.fail \in PageSteps THEN Out(i.s, PageObs(o, e, FALSE), ErrorDict(e.msg))
     ELSE Out(i.s, PageObs(o, e, TRUE), PyList(ExtractAll(e.page, extract_type, attribute)))


\* json.loads succeeds on these texts.
JsonTexts == {"[{}]"}

\* generate_schema(url, prompt, model).  Steps that may raise: init, strategy, arun.
generate_schema(s, url, prompt, model, e) ==
  LET i == initialize(s, e.fail = "init")
      o == [Idle EXCEPT !.init = i.init]
      content == e.res.extracted_content
  IN IF i.raised THEN InitRaised(i, e)
     ELSE IF e.fail = "strategy" THEN Out(i.s, o, ErrorDict(e.msg))
     ELSE IF e.fail = "arun" THEN Out(i.s, OnShared(o, i.s), ErrorDict(e.msg))
     ELSE IF ~e.res.success
          THEN Out(i.s, OnShared(o, i.s), PyDict([error |-> e.res.error_message, success |-> FALSE]))
     ELSE IF content = None
          \* json.loads(None): a TypeError, which the outer handler catches
          THEN Out(i.s, OnShared(o, i.s),
                   ErrorDict("the JSON object must be str, bytes or bytearray, not NoneType"))
     ELSE IF content \in JsonTexts
          THEN Out(i.s, OnShared(o, i.s), PyDict([success |-> TRUE, schema |-> content]))
     ELSE Out(i.s, OnShared(o, i.s),
              PyDict([success |-> TRUE, text_result |-> content,
                      error |-> "Unable to parse result as JSON schema"]))

\* A Python bool where None may stand as well.
PyBool(b) == IF b THEN "True" ELSE "False"

\* verify(url, selector, expected)
verify(s, url, selector, expected, e) ==
  LET i == initialize(s, e.fail = "init")
      o == [Idle EXCEPT !.init = i.init]
      exists == Len(e.page) > 0
      content_matches ==
        exists /\ Truthy(expected)
          /\ \E k \in 1..Len(e.page) : Contains(e.page[k].text, expected)
  IN IF i.raised THEN InitRaised(i, e)
     ELSE IF e.fail \in PageSteps THEN Out(i.s, PageObs(o, e, FALSE), ErrorDict(e.msg))
     ELSE Out(i.s, PageObs(o, e, TRUE),
              PyDict([success |-> TRUE, exists |-> exists,
                      content_matches |-> IF Truthy(expected) THEN PyBool(content_matches) ELSE None]))

\* A variant of wait() whose fallback does not look at the number of elements.
wait_without_count(s, url, selector, timeout, e) ==
  LET i == initialize(s, e.fail = "init")
      o == [Idle EXCEPT !.init = i.init]
  IN IF i.raised THEN InitRaised(i, e)
     ELSE IF e.fail \in PageSteps \ {"element"}
          THEN Out(i.s, PageObs(o, e, FALSE), ErrorDict(e.msg))
     ELSE Out(i.s, PageObs(o, e, TRUE),
              PyDict([success |-> TRUE,
                      message |-> "Element " \o selector \o " appeared within timeout"]))

\* wait(url, selector, timeout): when wait_for raises (e.visible is false), the
\* method falls back to counting the matched elements.
wait(s, url, selector, timeout, e) ==
  LET i == initialize(s, e.fail = "init")
      o == [Idle EXCEPT !.init = i.init]
  IN IF i.raised THEN InitRaised(i, e)
     ELSE IF e.fail \in PageSteps \ {"element"}
          THEN Out(i.s, PageObs(o, e, FALSE), ErrorDict(e.msg))
     ELSE IF ~e.visible /\ Len(e.page) = 0
          THEN Out(i.s, PageObs(o, e, FALSE),
                   ErrorDict("No elements found for selector '" \o selector \o "'"))
     ELSE Out(i.s, PageObs(o, e, TRUE),
              PyDict([success |-> TRUE,
                      message |-> "Element " \o selector \o " appeared within timeout"]))

\* The condition string of filter, parsed: its type (href or text) and literal.
ParseCondition(condition) ==
  IF Contains(condition, "href.includes(")
  THEN [type |-> "href",
        value |-> Remove(Remove(Remove(Remove(condition, "href.includes("), ")"), "\""), "'")]
  ELSE IF Contains(condition, "text.includes(")
  THEN [type |-> "text",
        value |-> Remove(Remove(Remove(Remove(condition, "text.includes("), ")"), "\""), "'")]
  ELSE [type |-> "text", value |-> condition]

\* Condition strings at large: the requests' conditions, an empty literal, the
\* empty string, and strings that hold a marker without being of a recognized form.
ConditionTexts ==
  Conditions \cup {"text.includes(\"\")", "", "href", "includes(x)",
                   "!href.includes('/blog/')", "see text.includes(Blog)"}

\* ParseCondition over the conditions of the model, computed once.
ParsedConditions == Table([c \in ConditionTexts |-> ParseCondition(c)])

\* A variant of the entry that tests the text whatever the predicate's type.
FilterEntry_text_only(el, c) ==
  IF Truthy(el.text) /\ Contains(el.text, c.value) THEN <<[text |-> el.text]>> ELSE <<>>

\* The entry filter appends for one element, or <<>> when it appends none.
FilterEntry(el, c) ==
  IF c.type = "href"
  THEN LET href == GetAttr(el, "href")
       IN IF Truthy(href) /\ Contains(href, c.value)
          THEN <<[text |-> el.text, href |-> href]>> ELSE <<>>
  ELSE IF Truthy(el.text) /\ Contains(el.text, c.value)
       THEN <<[text |-> el.text]>> ELSE <<>>

RECURSIVE FilterAll(_, _)
FilterAll(page, c) ==
  IF page = <<>> THEN <<>> ELSE FilterEntry(Head(page), c) \o FilterAll(Tail(page), c)

\* filter(url, selector, condition).  An element whose attribute or text read
\* raises (step "element": the first one) is skipped, the rest are filtered.
filter(s, url, selector, condition, e) ==
  LET i == initialize(s, e.fail = "init")
      o == [Idle EXCEPT !.init = i.init]
      c == ParsedConditions[condition]
      read == IF e.fail = "element" THEN Tail(e.page) ELSE e.page
  IN IF i.raised THEN InitRaised(i, e)
     ELSE IF e.fail \in PageSteps \ {"element"}
          THEN Out(i.s, PageObs(o, e, FALSE), ErrorDict(e.msg))
     ELSE Out(i.s, PageObs(o, [e EXCEPT !.fail = "none"], TRUE),
              PyDict([data |-> FilterAll(read, c), success |-> TRUE]))

\* os.getcwd()
Cwd == "/app"
\* hash(x), as text
Hash(x) == "h(" \o x \o ")"
\* path.replace(os.getcwd(), ''), less one leading '/'
RelativePath(path) ==
  LET r == Remove(path, Cwd)
  IN IF StartsWith(r, "/") THEN SubSeq(r, 2, Len(r)) ELSE r

\* take_screenshot(url, selector, full_page).  Step "shot": the capture raises.
take_screenshot(s, url, selector, full_page, e) ==
  LET i == initialize(s, e.fail = "init")
      o == [Idle EXCEPT !.init = i.init]
      name == "screenshot_" \o Hash(url) \o "_"
                \o (IF Truthy(selector) THEN Hash(selector) ELSE "full") \o ".png"
      screenshot_path == Cwd \o "/public/screenshots/" \o name
  IN IF i.raised THEN InitRaised(i, e)
     ELSE IF e.fail \in (PageSteps \ {"element"}) \cup {"shot"}
          THEN Out(i.s, PageObs(o, e, FALSE), ErrorDict(e.msg))
     ELSE Out(i.s, [PageObs(o, e, TRUE) EXCEPT !.wrote = TRUE],
              PyDict([success |-> TRUE, path |-> RelativePath(screenshot_path),
                      url |-> "/public/screenshots/" \o name]))

\* A variant of extract_pdf() that reads the document whatever its content-type.
extract_pdf_without_check(s, url, e) ==
  IF e.fail = "get"
  THEN Out(s, Idle, ErrorDict("Error downloading PDF: " \o e.msg))
  ELSE IF e.fail = "read"
  THEN Out(s, [Idle EXCEPT !.decoded = TRUE], ErrorDict("Error processing PDF: " \o e.msg))
  ELSE Out(s, [Idle EXCEPT !.decoded = TRUE], PyDict([text |-> "page text", success |-> TRUE]))

\* extract_pdf(url).  Step "get": the download raises a RequestException;
\* step "read": the PDF reader raises.  e.ctype is the content-type header,
\* None when the response has none.
extract_pdf(s, url, e) ==
  IF e.fail = "get"
  THEN Out(s, Idle, ErrorDict("Error downloading PDF: " \o e.msg))
  ELSE IF e.ctype = None
  \* 'application/pdf' not in None: a TypeError, caught by the last handler
  THEN Out(s, Idle, ErrorDict("Error processing PDF: argument of type 'NoneType' is not iterable"))
  ELSE IF ~Contains(e.ctype, "application/pdf")
  THEN Out(s, Idle, ErrorDict("URL does not point to a PDF. Content-Type: " \o e.ctype))
  ELSE IF e.fail = "read"
  THEN Out(s, [Idle EXCEPT !.decoded = TRUE], ErrorDict("Error processing PDF: " \o e.msg))
  ELSE Out(s, [Idle EXCEPT !.decoded = TRUE], PyDict([text |-> "page text", success |-> TRUE]))


\* The absolute URL crawl_links makes of an href found on the page at url.
ResolveLink(url, href) ==
  IF StartsWith(href, "/")
  THEN IF Contains(url, "://")
       THEN SplitHead(url, "://") \o "://" \o SplitHead(SplitSecond(url, "://"), "/") \o href
       ELSE url \o href
  ELSE IF ~StartsWith(href, "http")
       THEN IF EndsWith(url, "/") THEN url \o href ELSE url \o "/" \o href
       ELSE href

\* The links crawl_links collects: the resolved href of every element that has one.
RECURSIVE CollectLinks(_, _)
CollectLinks(url, page) ==
  IF page = <<>> THEN <<>>
  ELSE LET href == GetAttr(Head(page), "href")
       IN (IF Truthy(href) THEN <<ResolveLink(url, href)>> ELSE <<>>)
            \o CollectLinks(url, Tail(page))

\* CollectLinks over the URLs and pages of the model, computed once.
CollectedLinks == Table([x \in Urls \X Pages |-> CollectLinks(x[1], x[2])])

\* A variant of the slice that keeps every link.
Slice_keeps_all(l, d) == l

\* links[:d]
Slice(l, d) ==
  IF d >= 0 THEN SubSeq(l, 1, IF d < Len(l) THEN d ELSE Len(l))
  ELSE SubSeq(l, 1, Len(l) + d)

\* What one per-link crawl does: ok / fail (arun returns, with success true /
\* false), raise_new (the AsyncWebCrawler constructor raises), raise_arun (arun
\* raises), raise_close (the result is recorded, then crawler.close() raises).
LinkOutcomes == {"ok", "fail", "raise_new", "raise_arun", "raise_close"}

\* One round of the per-link loop: the entries appended to results, the crawlers
\* constructed and the crawlers left unclosed.
LinkRound(link, outcome, msg) ==
  LET recorded == [url |-> link, success |-> outcome # "fail",
                   data |-> IF outcome = "fail" THEN None ELSE ResOk.extracted_content,
                   error |-> IF outcome = "fail" THEN ResFail.error_message ELSE None]
      failed == [url |-> link, success |-> FALSE, error |-> msg]
  IN CASE outcome \in {"ok", "fail"} -> [entries |-> <<recorded>>, made |-> 1, open |-> 0]
       [] outcome = "raise_new" -> [entries |-> <<failed>>, made |-> 0, open |-> 0]
       [] outcome = "raise_arun" -> [entries |-> <<failed>>, made |-> 1, open |-> 1]
       [] outcome = "raise_close" -> [entries |-> <<recorded, failed>>, made |-> 1, open |-> 1]

\* The per-link loop over links, from the k-th on.
RECURSIVE LinkLoop(_, _, _, _)
LinkLoop(links, outcomes, msg, k) ==
  IF k > Len(links) THEN [entries |-> <<>>, made |-> 0, open |-> 0]
  ELSE LET r == LinkRound(links[k], outcomes[k], msg)
           rest == LinkLoop(links, outcomes, msg, k + 1)
       IN [entries |-> r.entries \o rest.entries, made |-> r.made + rest.made,
           open |-> r.open + rest.open]

\* The schema dict crawl_links hands to the strategy: the validated model's dump.
LinksSchemaDict(schema) ==
  [name |-> IF "name" \in DOMAIN schema THEN schema.name ELSE "LinkedPageExtraction",
   fields |-> IF "fields" \in DOMAIN schema THEN schema.fields ELSE <<>>]

\* crawl_links(url, link_selector, schema, max_depth): a list, or an error dict.
\* e.links[k] is what the crawl of the k-th retained link does.
crawl_links(s, url, link_selector, schema, max_depth, e) ==
  LET i == initialize(s, e.fail = "init")
      o == [Idle EXCEPT !.init = i.init]
      links == Slice(CollectedLinks[<<url, e.page>>], max_depth)
      loop == LinkLoop(links, e.links, e.msg, 1)
  IN IF i.raised THEN InitRaised(i, e)
     ELSE IF e.fail = "schema" THEN Out(i.s, o, ErrorDict(e.msg))
     ELSE IF e.fail \in PageSteps THEN Out(i.s, PageObs(o, e, FALSE), ErrorDict(e.msg))
     ELSE Out(i.s,
              [PageObs(o, e, TRUE) EXCEPT
                 !.handed = IF schema # <<>> THEN LinksSchemaDict(schema) ELSE <<>>,
                 !.linkCrawlers = loop.made, !.linkOpen = loop.open],
              PyList(loop.entries))

\* str(uuid.uuid4())
Uuid == "3f2b"

\* A variant of generate_markdown() without the check for empty content.
generate_markdown_accepts_empty(s, url, options, e) ==
  LET i == initialize(s, e.fail = "init")
      o == [Idle EXCEPT !.init = i.init]
      md_filename == Uuid \o ".md"
      md_path == Cwd \o "/public/markdown/" \o md_filename
  IN IF i.raised THEN InitRaised(i, e)
     ELSE IF e.fail = "arun" THEN Out(i.s, OnShared(o, i.s), ErrorDict(e.msg))
     ELSE IF ~e.res.success
          THEN Out(i.s, OnShared(o, i.s), PyDict([error |-> e.res.error_message, success |-> FALSE]))
     ELSE IF e.fail = "write" THEN Out(i.s, OnShared(o, i.s), ErrorDict(e.msg))
     ELSE Out(i.s, [OnShared(o, i.s) EXCEPT !.wrote = TRUE],
              PyDict([success |-> TRUE, url |-> e.res.url, markdown |-> e.res.markdown,
                      path |-> RelativePath(md_path),
                      file_url |-> "/public/markdown/" \o md_filename]))

\* generate_markdown(url, options).  Steps that may raise: init, arun, write.
generate_markdown(s, url, options, e) ==
  LET i == initialize(s, e.fail = "init")
      o == [Idle EXCEPT !.init = i.init]
      md_filename == Uuid \o ".md"
      md_path == Cwd \o "/public/markdown/" \o md_filename
  IN IF i.raised THEN InitRaised(i, e)
     ELSE IF e.fail = "arun" THEN Out(i.s, OnShared(o, i.s), ErrorDict(e.msg))
     ELSE IF ~e.res.success
          THEN Out(i.s, OnShared(o, i.s), PyDict([error |-> e.res.error_message, success |-> FALSE]))
     ELSE IF ~Truthy(e.res.markdown)
          THEN Out(i.s, OnShared(o, i.s), ErrorDict("Markdown generation resulted in empty content"))
     ELSE IF e.fail = "write" THEN Out(i.s, OnShared(o, i.s), ErrorDict(e.msg))
     ELSE Out(i.s, [OnShared(o, i.s) EXCEPT !.wrote = TRUE],
              PyDict([success |-> TRUE, url |-> e.res.url, markdown |-> e.res.markdown,
                      path |-> RelativePath(md_path),
                      file_url |-> "/public/markdown/" \o md_filename]))

\* generate_pdf(url).  Steps that may raise: init, arun, write.
generate_pdf(s, url, e) ==
  LET i == initialize(s, e.fail = "init")
      o == [Idle EXCEPT !.init = i.init]
      pdf_filename == Uuid \o ".pdf"
      pdf_path == Cwd \o "/public/pdfs/" \o pdf_filename
  IN IF i.raised THEN InitRaised(i, e)
     ELSE IF e.fail = "arun" THEN Out(i.s, OnShared(o, i.s), ErrorDict(e.msg))
     ELSE IF ~e.res.success
          THEN Out(i.s, OnShared(o, i.s), PyDict([error |-> e.res.error_message, success |-> FALSE]))
     ELSE IF ~Truthy(e.res.pdf)
          THEN Out(i.s, OnShared(o, i.s), ErrorDict("PDF data not found in crawl result"))
     ELSE IF e.fail = "write" THEN Out(i.s, OnShared(o, i.s), ErrorDict(e.msg))
     ELSE Out(i.s, [OnShared(o, i.s) EXCEPT !.wrote = TRUE],
              PyDict([success |-> TRUE, path |-> RelativePath(pdf_path),
                      url |-> "/public/pdfs/" \o pdf_filename]))


\* ------------------------------------------------------------ inputs
\* A failure of one of the steps, with either message.
Failures(steps, page) ==
  {[Calm EXCEPT !.fail = f, !.msg = m, !.page = page] : f \in steps, m \in Msgs}
\* The worlds of a method that runs arun on the shared crawler.
CrawlerEnvs(steps) == {[Calm EXCEPT !.res = r] : r \in Results} \cup Failures(steps, <<>>)
CrawlEnvs == CrawlerEnvs({"init", "schema", "arun"})
SchemaEnvs == CrawlerEnvs({"init", "strategy", "arun"})
ArtifactEnvs == CrawlerEnvs({"init", "arun", "write"})
\* The worlds of a page-driving method.
PageEnvs ==
  {[Calm EXCEPT !.page = p] : p \in SamplePages} \cup Failures({"init"} \cup PageSteps, <<E1, E2>>)
WaitEnvs ==
  {[Calm EXCEPT !.page = p, !.visible = v] : p \in SamplePages, v \in BOOLEAN}
    \cup Failures({"init"} \cup (PageSteps \ {"element"}), <<>>)
ShotEnvs == {Calm} \cup Failures({"init", "shot"} \cup (PageSteps \ {"element"}), <<>>)
\* The content-type headers of a fetched document.
CTypes == {"application/pdf", "text/html", None}
PdfEnvs ==
  {[Calm EXCEPT !.ctype = c] : c \in CTypes} \cup Failures({"get", "read"}, <<>>)
\* The links of a page that carry an href.
NumLinks(page) == Cardinality({k \in 1..Len(page) : Truthy(GetAttr(page[k], "href"))})
\* What the crawls of the links of page p do, when at most d are retained (the
\* crawls that never run are left at "ok").
LinkWorlds(p, d) ==
  {v \in [1..MaxElems -> LinkOutcomes] :
     \A k \in 1..MaxElems : (k > NumLinks(p) \/ k > d) => v[k] = "ok"}
\* The worlds of crawl_links with max_depth d: a page, and what the crawl of each
\* retained link does.
LinksEnvs ==
  Table([d \in 0..MaxElems |->
     UNION {{[Calm EXCEPT !.page = p, !.links = w] : w \in LinkWorlds(p, d)} : p \in SamplePages}
       \cup {[x EXCEPT !.links = [k \in 1..MaxElems |-> "ok"]] :
               x \in Failures({"init", "schema"} \cup PageSteps, <<E1, E2>>)}])
\* The job worker closes the shared crawler after the job: that may raise too.
WithClose(envs) == {[x EXCEPT !.closeFails = c] : x \in envs, c \in BOOLEAN}

\* Extraction schemas of a request: none, without and with a baseSelector.
Field1 == [name |-> "title", selector |-> "h1", type |-> "text", attribute |-> None]
Schema1 == [name |-> "Item", fields |-> <<Field1>>]
Schema2 == [name |-> "Item", fields |-> <<Field1>>, baseSelector |-> "div.item"]
Schemas == {<<>>, Schema1, Schema2}
\* Schema and strategy of a crawl request.
CrawlKinds == {<<sc, "JsonCssExtractionStrategy">> : sc \in Schemas} \cup {<<(<<>>), "LLMExtractionStrategy">>}
\* Schema and max_depth of a crawl-links request.
LinksKinds == {<<(<<>>), d>> : d \in {0, 1, 2}} \cup {<<Schema1, 1>>}
\* Selector and full_page of a screenshot request.
ShotKinds == {<<None, FALSE>>, <<None, TRUE>>, <<Selector, FALSE>>}
\* Extraction type and attribute of an extract request.
ExtractKinds == {<<"text", None>>, <<"html", None>>, <<"attribute", "href">>, <<"attribute", None>>}
Expecteds == {None, "", "Blog"}
\* The defaults of the optional parameters.
DefaultTimeout == 30000
DefaultMaxDepth == 1
DefaultStrategy == "JsonCssExtractionStrategy"

\* ------------------------------------------------------------ HTTP endpoints
\* An unhandled exception: general_exception_handler answers 500.
Unhandled(out) ==
  [status |-> 500, detail |-> "An internal server error occurred",
   body |-> PyDict([error |-> out.obs.msg, detail |-> "An internal server error occurred"])]
HttpError(detail) == [status |-> 500, detail |-> detail, body |-> NoVal]
HttpOk(body) == [status |-> 200, detail |-> None, body |-> body]

\* if "error" in result: raise HTTPException(500, result["error"]); return result
ByErrorKey(out) ==
  IF out.obs.raised THEN Unhandled(out)
  ELSE IF HasKey(out.val, "error") THEN HttpError(out.val.d.error)
  ELSE HttpOk(out.val)

\* if isinstance(result, dict) and "error" in result: raise ...; return {"data": result}
ByErrorKeyWrapped(out) ==
  IF out.obs.raised THEN Unhandled(out)
  ELSE IF HasKey(out.val, "error") THEN HttpError(out.val.d.error)
  ELSE HttpOk(PyDict([data |-> out.val.l]))

\* if not result.get("success", False): raise HTTPException(500, result.get("error", default))
BySuccess(out, default) ==
  IF out.obs.raised THEN Unhandled(out)
  ELSE IF ~(HasKey(out.val, "success") /\ out.val.d.success)
       THEN HttpError(IF HasKey(out.val, "error") THEN out.val.d.error ELSE default)
  ELSE HttpOk(out.val)

\* One call of an entry point is over: the service's state and the record of the call.
Finish(surf, act, b, m, a, out, r) ==
  /\ out.s.created <= MaxCrawlers
  /\ surface' = surf /\ action' = act /\ bag' = b
  /\ method' = m /\ args' = a /\ obs' = out.obs /\ ret' = out.val /\ resp' = r
  /\ crawler' = out.s.crawler /\ created' = out.s.created /\ closed' = out.s.closed
  /\ UNCHANGED <<world, tasks>>

HttpCrawl ==
  \E u \in Urls, k \in CrawlKinds, e \in CrawlEnvs :
    LET req == [url |-> u, schema |-> k[1], strategy |-> k[2], baseSelector |-> None]
        out == crawl(Svc, req.url, req.schema, req.strategy, e)
    IN Finish("http", "crawl", req, "crawl", <<req.url, req.schema, req.strategy>>, out, ByErrorKey(out))

HttpExtract ==
  \E u \in Urls, k \in ExtractKinds, e \in PageEnvs :
    LET req == [url |-> u, selector |-> Selector, type |-> k[1], attribute |-> k[2]]
        out == extract(Svc, req.url, req.selector, req.type, req.attribute, e)
    IN Finish("http", "extract", req, "extract",
              <<req.url, req.selector, req.type, req.attribute>>, out, ByErrorKeyWrapped(out))

HttpGenerateSchema ==
  \E u \in Urls, e \in SchemaEnvs :
    LET req == [url |-> u, prompt |-> "find prices", model |-> None]
        out == generate_schema(Svc, req.url, req.prompt, req.model, e)
    IN Finish("http", "generateSchema", req, "generate_schema",
              <<req.url, req.prompt, req.model>>, out, ByErrorKey(out))

HttpVerify ==
  \E u \in Urls, x \in Expecteds, e \in PageEnvs :
    LET req == [url |-> u, selector |-> Selector, expected |-> x]
        out == verify(Svc, req.url, req.selector, req.expected, e)
    IN Finish("http", "verify", req, "verify", <<req.url, req.selector, req.expected>>, out, ByErrorKey(out))

HttpCrawlLinks ==
  \E u \in Urls, k \in LinksKinds :
   \E e \in LinksEnvs[k[2]] :
    LET req == [url |-> u, link_selector |-> Selector, schema |-> k[1], max_depth |-> k[2]]
        out == crawl_links(Svc, req.url, req.link_selector, req.schema, req.max_depth, e)
    IN Finish("http", "crawlLinks", req, "crawl_links",
              <<req.url, req.link_selector, req.schema, req.max_depth>>, out, ByErrorKeyWrapped(out))

HttpWait ==
  \E u \in Urls, e \in WaitEnvs :
    LET req == [url |-> u, selector |-> Selector, timeout |-> DefaultTimeout]
        out == wait(Svc, req.url, req.selector, req.timeout, e)
    IN Finish("http", "wait", req, "wait", <<req.url, req.selector, req.timeout>>, out,
              BySuccess(out, "Wait operation failed"))

HttpFilter ==
  \E u \in Urls, c \in Conditions, e \in PageEnvs :
    LET req == [url |-> u, selector |-> Selector, condition |-> c]
        out == filter(Svc, req.url, req.selector, req.condition, e)
    IN Finish("http", "filter", req, "filter", <<req.url, req.selector, req.condition>>, out, ByErrorKey(out))

HttpScreenshot ==
  \E u \in Urls, k \in ShotKinds, e \in ShotEnvs :
    LET req == [url |-> u, selector |-> k[1], full_page |-> k[2]]
        out == take_screenshot(Svc, req.url, req.selector, req.full_page, e)
    IN Finish("http", "screenshot", req, "take_screenshot",
              <<req.url, req.selector, req.full_page>>, out, BySuccess(out, "Screenshot operation failed"))

HttpExtractPdf ==
  \E u \in Urls, e \in PdfEnvs :
    LET req == [url |-> u]
        out == extract_pdf(Svc, req.url, e)
    IN Finish("http", "extractPdf", req, "extract_pdf", <<req.url>>, out,
              BySuccess(out, "PDF extraction failed"))

HttpToMarkdown ==
  \E u \in Urls, e \in ArtifactEnvs :
    LET req == [url |-> u, options |-> None]
        out == generate_markdown(Svc, req.url, req.options, e)
    IN Finish("http", "toMarkdown", req, "generate_markdown", <<req.url, req.options>>, out,
              BySuccess(out, "Markdown generation failed"))

HttpToPdf ==
  \E u \in Urls, e \in ArtifactEnvs :
    LET req == [url |-> u]
        out == generate_pdf(Svc, req.url, e)
    IN Finish("http", "toPdf", req, "generate_pdf", <<req.url>>, out,
              BySuccess(out, "PDF generation failed"))


\* ------------------------------------------------------------ job worker
\* job_data.get(k): None when the key is absent.
Get(job, k) == IF k \in DOMAIN job THEN job[k] ELSE None
\* job_data.get(k, default)
GetOr(job, k, default) == IF k \in DOMAIN job THEN job[k] ELSE default
\* job_data.get("schema"): no schema is the empty dict here, as for a request.
GetSchema(job) == IF "schema" \in DOMAIN job THEN job.schema ELSE <<>>

\* A handler that returned v without calling the service.
NotInvoked(s, v) == [method |-> "none", args |-> <<>>, out |-> Out(s, Idle, NoVal), val |-> v]
\* A handler that called the service and returned v.
Invoked(m, a, out, v) == [method |-> m, args |-> a, out |-> out, val |-> v]
\* {"error": msg}
JobError(msg) == PyDict([error |-> msg])
\* Standardize response format: an error dict as it is, a list as {"data": list}.
Wrapped(val) == IF HasKey(val, "error") THEN val ELSE PyDict([data |-> val.l])

\* A variant of _handle_crawl that calls the service without looking at the url.
_handle_crawl_unchecked(job, s, e) ==
  LET url == Get(job, "url")
      schema == GetSchema(job)
      strategy == GetOr(job, "strategy", DefaultStrategy)
      out == crawl(s, url, schema, strategy, e)
  IN Invoked("crawl", <<url, schema, strategy>>, out, out.val)

_handle_crawl(job, s, e) ==
  LET url == Get(job, "url")
      schema == GetSchema(job)
      strategy == GetOr(job, "strategy", DefaultStrategy)
      out == crawl(s, url, schema, strategy, e)
  IN IF ~Truthy(url) THEN NotInvoked(s, JobError("URL is required for crawl action"))
     ELSE Invoked("crawl", <<url, schema, strategy>>, out, out.val)

_handle_extract(job, s, e) ==
  LET url == Get(job, "url")
      selector == Get(job, "selector")
      extract_type == GetOr(job, "type", "text")
      attribute == Get(job, "attribute")
      out == extract(s, url, selector, extract_type, attribute, e)
  IN IF ~Truthy(url) \/ ~Truthy(selector)
     THEN NotInvoked(s, JobError("URL and selector are required for extract action"))
     ELSE Invoked("extract", <<url, selector, extract_type, attribute>>, out, Wrapped(out.val))

_handle_generate_schema(job, s, e) ==
  LET url == Get(job, "url")
      prompt == Get(job, "prompt")
      model == Get(job, "model")
      out == generate_schema(s, url, prompt, model, e)
  IN IF ~Truthy(url) \/ ~Truthy(prompt)
     THEN NotInvoked(s, JobError("URL and prompt are required for generateSchema action"))
     ELSE Invoked("generate_schema", <<url, prompt, model>>, out, out.val)

_handle_verify(job, s, e) ==
  LET url == Get(job, "url")
      selector == Get(job, "selector")
      expected == Get(job, "expected")
      out == verify(s, url, selector, expected, e)
  IN IF ~Truthy(url) \/ ~Truthy(selector)
     THEN NotInvoked(s, JobError("URL and selector are required for verify action"))
     ELSE Invoked("verify", <<url, selector, expected>>, out, out.val)

_handle_crawl_links(job, s, e) ==
  LET url == Get(job, "url")
      link_selector == Get(job, "linkSelector")
      schema == GetSchema(job)
      max_depth == GetOr(job, "maxDepth", DefaultMaxDepth)
      out == crawl_links(s, url, link_selector, schema, max_depth, e)
  IN IF ~Truthy(url) \/ ~Truthy(link_selector)
     THEN NotInvoked(s, JobError("URL and linkSelector are required for crawlLinks action"))
     ELSE Invoked("crawl_links", <<url, link_selector, schema, max_depth>>, out, Wrapped(out.val))

_handle_wait(job, s, e) ==
  LET url == Get(job, "url")
      selector == Get(job, "selector")
      timeout == GetOr(job, "timeout", DefaultTimeout)
      out == wait(s, url, selector, timeout, e)
  IN IF ~Truthy(url) \/ ~Truthy(selector)
     THEN NotInvoked(s, JobError("URL and selector are required for wait action"))
     ELSE Invoked("wait", <<url, selector, timeout>>, out, out.val)

_handle_filter(job, s, e) ==
  LET url == Get(job, "url")
      selector == Get(job, "selector")
      condition == Get(job, "condition")
      out == filter(s, url, selector, condition, e)
  IN IF ~Truthy(url) \/ ~Truthy(selector) \/ ~Truthy(condition)
     THEN NotInvoked(s, JobError("URL, selector, and condition are required for filter action"))
     ELSE Invoked("filter", <<url, selector, condition>>, out, out.val)

\* The if/elif chain of process_job over the action type.
Dispatch(action_type, job, s, e) ==
  CASE action_type = "crawl" -> _handle_crawl(job, s, e)
    [] action_type = "extract" -> _handle_extract(job, s, e)
    [] action_type = "generateSchema" -> _handle_generate_schema(job, s, e)
    [] action_type = "verify" -> _handle_verify(job, s, e)
    [] action_type = "crawlLinks" -> _handle_crawl_links(job, s, e)
    [] action_type = "wait" -> _handle_wait(job, s, e)
    [] action_type = "filter" -> _handle_filter(job, s, e)
    [] OTHER -> NotInvoked(s, JobError("Unknown action type: " \o action_type))

\* process_job(job_data): the service's state after it, the service call it made
\* (h) and what it handed back: the value returned, or raised when the close in
\* its finally clause raised; closeCalled: crawler_service.close() was invoked.
process_job(job, s, e) ==
  LET action_type == Get(job, "type")
      h == Dispatch(action_type, job, s, e)
      \* except Exception as e: return {"error": str(e)}
      returned == IF h.out.obs.raised THEN JobError(h.out.obs.msg) ELSE h.val
      \* finally: await self.crawler_service.close()
      c == close(h.out.s, e.closeFails)
  IN IF ~Truthy(action_type)
     THEN [h |-> NotInvoked(s, NoVal),
           resp |-> [raised |-> FALSE, val |-> JobError("No action type specified"),
                     closeCalled |-> FALSE]]
     ELSE [h |-> [h EXCEPT !.out.s = c.s],
           resp |-> [raised |-> c.raised, val |-> IF c.raised THEN NoVal ELSE returned,
                     closeCalled |-> c.called]]

\* The job_data bags: a key that may be absent, and the bags of two sets merged.
Opt(k, vals) == {<<>>} \cup {[x \in {k} |-> v] : v \in vals}
Cross(A, B) == {a @@ b : a \in A, b \in B}
Typed(t, B) == Cross({[type |-> t]}, B)
Jobs ==
  Cross(Opt("type", {""}), Opt("url", {Url}))
    \cup Typed("crawl", Cross(Opt("url", {Url}), Opt("schema", {Schema1})))
    \cup Typed("extract", Cross(Opt("url", {Url}), Cross(Opt("selector", {Selector}), Opt("attribute", {"href"}))))
    \cup Typed("generateSchema", Cross(Opt("url", {Url}), Opt("prompt", {"find prices"})))
    \cup Typed("verify", Cross(Opt("url", {Url}), Opt("selector", {Selector})))
    \cup Typed("crawlLinks", Cross(Opt("url", {Url}), Cross(Opt("linkSelector", {Selector}), Opt("maxDepth", {0}))))
    \cup Typed("wait", Cross(Opt("url", {Url}), Opt("selector", {Selector})))
    \cup Typed("filter", Cross(Opt("url", {Url}), Cross(Opt("selector", {Selector}), Opt("condition", {"href.includes(\"/blog/\")"}))))
    \cup UNION {Typed(t, Opt("url", {Url})) : t \in {"screenshot", "extractPdf", "toMarkdown", "toPdf", "bogus"}}

\* The worlds that matter to a job: those of the method its handler calls, and
\* the calm one when the handler calls none.
JobEnvs(job) ==
  LET t == Get(job, "type")
      has(k) == Truthy(Get(job, k))
  IN WithClose(
       IF t = "crawl" /\ has("url") THEN CrawlEnvs
       ELSE IF t = "extract" /\ has("url") /\ has("selector") THEN PageEnvs
       ELSE IF t = "generateSchema" /\ has("url") /\ has("prompt") THEN SchemaEnvs
       ELSE IF t = "verify" /\ has("url") /\ has("selector") THEN PageEnvs
       ELSE IF t = "crawlLinks" /\ has("url") /\ has("linkSelector") THEN LinksEnvs[GetOr(job, "maxDepth", DefaultMaxDepth)]
       ELSE IF t = "wait" /\ has("url") /\ has("selector") THEN WaitEnvs
       ELSE IF t = "filter" /\ has("url") /\ has("selector") /\ has("condition") THEN PageEnvs
       ELSE {Calm})

JobWorlds == Table([job \in Jobs |-> JobEnvs(job)])

ProcessJob ==
  \E job \in Jobs :
    \E e \in JobWorlds[job] :
      LET r == process_job(job, Svc, e)
      IN Finish("job", Get(job, "type"), job, r.h.method, r.h.args, r.h.out, r.resp)

\* app.py startup_event: await crawler_service.initialize()
Startup ==
  \E fails \in BOOLEAN, m \in Msgs :
    LET i == initialize(Svc, fails)
    IN Finish("startup", "startup", <<>>, "initialize", <<>>,
              Out(i.s, [Idle EXCEPT !.init = i.init, !.raised = i.raised,
                                    !.msg = IF i.raised THEN m ELSE ""], NoVal),
              [raised |-> i.raised])

\* app.py shutdown_event: await crawler_service.close()
Shutdown ==
  \E fails \in BOOLEAN, m \in Msgs :
    LET c == close(Svc, fails)
    IN Finish("shutdown", "shutdown", <<>>, "close", <<>>,
              Out(c.s, [Idle EXCEPT !.raised = c.raised, !.msg = IF c.raised THEN m ELSE ""], NoVal),
              [raised |-> c.raised])

\* ------------------------------------------------------------ specification
\* The coroutines that run on the event loop at the same time.
TaskIds == 1..MaxTasks
\* A coroutine slot with no call in progress.  Of a call in progress: surface
\* and op name the entry point and the service method; pc is the await it is
\* suspended at (arun: self.crawler.arun; links: the per-link loop of
\* crawl_links; closing: self.crawler.close() inside close()); inst is the
\* crawler instance that await runs on; n, started, recorded and flying count
\* the links retained, the per-link crawls begun, the links whose result is
\* recorded and the per-link crawls under way.
Free == [surface |-> "none", op |-> "none", pc |-> "free", inst |-> NoCrawler,
         n |-> 0, started |-> 0, recorded |-> 0, flying |-> 0]

Init ==
  /\ crawler = NoCrawler /\ created = 0 /\ closed = {}
  /\ surface = "none" /\ action = "none" /\ bag = <<>>
  /\ method = "none" /\ args = <<>> /\ obs = Idle /\ ret = NoVal /\ resp = <<>>
  /\ world = Calm
  /\ tasks = [t \in TaskIds |-> Free]

Next ==
  \/ Startup \/ Shutdown
  \/ HttpCrawl \/ HttpExtract \/ HttpGenerateSchema \/ HttpVerify \/ HttpCrawlLinks
  \/ HttpWait \/ HttpFilter \/ HttpScreenshot \/ HttpExtractPdf \/ HttpToMarkdown \/ HttpToPdf
  \/ ProcessJob

Spec == Init /\ [][Next]_vars

\* ------------------------------------------------------------ single calls
\* One call of a service method on the freshly constructed service, in the
\* world e, which the state records.
Called(m, a, out, e) ==
  /\ surface = "none"
  /\ surface' = "call" /\ action' = m /\ bag' = <<>>
  /\ method' = m /\ args' = a /\ obs' = out.obs /\ ret' = out.val /\ resp' = <<>>
  /\ crawler' = out.s.crawler /\ created' = out.s.created /\ closed' = out.s.closed
  /\ world' = e
  /\ UNCHANGED tasks

\* The worlds of a page-driving call, over every page.
PageWorlds ==
  {[Calm EXCEPT !.page = p] : p \in Pages} \cup Failures({"init"} \cup PageSteps, <<E1, E2>>)
\* The worlds of wait: an element turned visible on a page that has it, or none did.
WaitWorlds ==
  {w \in {[Calm EXCEPT !.page = p, !.visible = v] : p \in Pages, v \in BOOLEAN} :
     w.visible => w.page # <<>>}
    \cup Failures({"init"} \cup (PageSteps \ {"element"}), <<>>)
\* The worlds of crawl_links with max_depth d, over every page.
LinksWorlds(d) ==
  UNION {{[Calm EXCEPT !.page = p, !.links = w] : w \in LinkWorlds(p, d)} : p \in Pages}
    \cup {[x EXCEPT !.links = [k \in 1..MaxElems |-> "ok"]] :
            x \in Failures({"init", "schema"} \cup PageSteps, <<E1, E2>>)}

\* Schema and max_depth of a crawl_links call: every depth without a schema, a
\* negative one included (max_depth is any int), and the schemas at depth one.
LinksCallKinds ==
  {<<(<<>>), d>> : d \in (-1)..(MaxElems + 1)} \cup {<<sc, 1>> : sc \in Schemas \ {<<>>}}

CallExtract ==
  \E k \in ExtractKinds \cup {<<"extract", None>>}, e \in PageWorlds :
    Called("extract", <<Url, Selector, k[1], k[2]>>, extract(Svc, Url, Selector, k[1], k[2], e), e)

CallVerify ==
  \E x \in Expecteds, e \in PageWorlds :
    Called("verify", <<Url, Selector, x>>, verify(Svc, Url, Selector, x, e), e)

CallWait ==
  \E e \in WaitWorlds :
    Called("wait", <<Url, Selector, DefaultTimeout>>, wait(Svc, Url, Selector, DefaultTimeout, e), e)

CallFilter ==
  \E c \in ConditionTexts, e \in PageWorlds :
    Called("filter", <<Url, Selector, c>>, filter(Svc, Url, Selector, c, e), e)

CallCrawlLinks ==
  \E k \in LinksCallKinds :
    \E e \in LinksWorlds(k[2]) :
      Called("crawl_links", <<Url, Selector, k[1], k[2]>>,
             crawl_links(Svc, Url, Selector, k[1], k[2], e), e)

CallCrawl ==
  \E k \in CrawlKinds, e \in CrawlEnvs :
    Called("crawl", <<Url, k[1], k[2]>>, crawl(Svc, Url, k[1], k[2], e), e)

\* The content-type headers of a fetched document at large: with parameters,
\* of another type, empty, absent.
CTypeTexts == CTypes \cup {"application/pdf; qs=0.001", "application/octet-stream", ""}
PdfWorlds ==
  {[x EXCEPT !.ctype = c] : x \in {Calm} \cup Failures({"get", "read"}, <<>>), c \in CTypeTexts}

CallExtractPdf ==
  \E e \in PdfWorlds :
    Called("extract_pdf", <<Url>>, extract_pdf(Svc, Url, e), e)

CallGenerateMarkdown ==
  \E e \in ArtifactEnvs :
    Called("generate_markdown", <<Url, None>>, generate_markdown(Svc, Url, None, e), e)

CallGeneratePdf ==
  \E e \in ArtifactEnvs :
    Called("generate_pdf", <<Url>>, generate_pdf(Svc, Url, e), e)

\* A start URL, by its parts: what follows the authority is a path, a query or nothing.
StartUrls ==
  {[scheme |-> sc, authority |-> au, rest |-> r] :
     sc \in {"https", "http"}, au \in {"example.com", "a.io:8080"},
     r \in {"", "/", "/page", "/dir/", "?page=2"}}
UrlText(u) == u.scheme \o "://" \o u.authority \o u.rest
\* The hrefs of links: absolute, root-relative, relative.
Hrefs == {"http://other.com/y", "https://other.com/", "/x", "/", "//cdn.io/x", "z", "z/w.html", "?q=1"}

\* ResolveLink applied to a start URL and an href; the state keeps both and the result.
ApplyResolveLink ==
  \E u \in StartUrls, h \in Hrefs :
    /\ surface = "none"
    /\ surface' = "apply" /\ action' = "ResolveLink" /\ bag' = [url |-> u, href |-> h]
    /\ method' = "none" /\ args' = <<UrlText(u), h>> /\ obs' = Idle
    /\ ret' = PyList(<<ResolveLink(UrlText(u), h)>>) /\ resp' = <<>>
    /\ UNCHANGED <<crawler, created, closed, world, tasks>>

\* ParseCondition applied to a condition string.
ApplyParseCondition ==
  \E c \in ConditionTexts :
    /\ surface = "none"
    /\ surface' = "apply" /\ action' = "ParseCondition" /\ bag' = [condition |-> c]
    /\ method' = "none" /\ args' = <<c>> /\ obs' = Idle
    /\ ret' = PyDict(ParseCondition(c)) /\ resp' = <<>>
    /\ UNCHANGED <<crawler, created, closed, world, tasks>>

\* The literals of a condition: plain ones, the empty one, and ones that hold a
\* quote or a parenthesis.
Literals == {"/blog/", "Other", "", "it's", "(new)", "a)b", "say \"hi\""}
\* name.includes(<quote>literal<quote>)
CallText(name, quote, literal) == name \o ".includes(" \o quote \o literal \o quote \o ")"

\* ParseCondition applied to a condition of one of the two recognized forms; the
\* state keeps the form's name and literal.
ApplyParseCall ==
  \E name \in {"href", "text"}, quote \in {"\"", "'"}, literal \in Literals :
    /\ surface = "none"
    /\ surface' = "apply" /\ action' = "ParseCall" /\ bag' = [name |-> name, literal |-> literal]
    /\ method' = "none" /\ args' = <<CallText(name, quote, literal)>> /\ obs' = Idle
    /\ ret' = PyDict(ParseCondition(CallText(name, quote, literal))) /\ resp' = <<>>
    /\ UNCHANGED <<crawler, created, closed, world, tasks>>

CallsNext ==
  \/ CallCrawl \/ CallExtract \/ CallVerify \/ CallWait \/ CallFilter \/ CallCrawlLinks
  \/ CallExtractPdf \/ CallGenerateMarkdown \/ CallGeneratePdf
  \/ ApplyResolveLink \/ ApplyParseCondition \/ ApplyParseCall

Calls == Init /\ [][CallsNext]_vars

\* ------------------------------------------------------------ concurrent calls
\* Coroutines of one event loop: a step runs a coroutine from one await to the
\* next, and the steps of different coroutines interleave.  initialize() holds
\* no await: the test of self.crawler and the assignment are one step with what
\* surrounds them.  A call whose initialize() raises changes nothing and is left out.

\* The methods that run arun on the shared crawler.
ArunMethods == {"crawl", "generate_schema", "generate_markdown", "generate_pdf"}
\* The methods the concurrent calls invoke through an endpoint and through a job.
HttpTaskOps == ArunMethods \cup {"crawl_links"}
JobTaskOps == {"crawl", "generate_schema", "crawl_links"}

\* The other variables of the state stay as they are.
CallRecordUnchanged == UNCHANGED <<surface, action, bag, method, args, obs, ret, resp, world>>

\* close() up to its await: with a crawler, the coroutine is suspended in
\* self.crawler.close() on it; without one, close() returns.
CloseBegun(task, surf, c) ==
  IF c # NoCrawler THEN [Free EXCEPT !.surface = surf, !.op = "close", !.pc = "closing", !.inst = c]
  ELSE Free

\* The call is over: an endpoint returns; process_job runs its finally clause,
\* crawler_service.close().
CallOver(task, c) ==
  IF task.surface = "job" THEN CloseBegun(task, "job", c) ELSE Free

\* A variant of the loop's readiness that does not wait for the crawl under way.
NextLinkReady_unawaited(task) == TRUE

\* The loop of crawl_links proceeds to its next link: `result = await
\* crawler.arun(...)` and the statements after it are over for the link before.
NextLinkReady(task) == task.flying = 0

\* An endpoint or a job calls a method that runs arun: initialize(), then the
\* coroutine is suspended in self.crawler.arun(...).
TaskArun(t) ==
  \E surf \in {"http", "job"}, op \in ArunMethods :
    LET i == initialize(Svc, FALSE)
    IN /\ tasks[t].pc = "free"
       /\ surf = "job" => op \in JobTaskOps
       /\ i.s.created <= MaxCrawlers
       /\ crawler' = i.s.crawler /\ created' = i.s.created /\ closed' = i.s.closed
       /\ tasks' = [tasks EXCEPT ![t] = [Free EXCEPT !.surface = surf, !.op = op, !.pc = "arun",
                                                       !.inst = i.s.crawler]]
       /\ CallRecordUnchanged

\* self.crawler.arun(...) is over, and with it the call.
TaskArunDone(t) ==
  /\ tasks[t].pc = "arun"
  /\ tasks' = [tasks EXCEPT ![t] = CallOver(tasks[t], crawler)]
  /\ UNCHANGED <<crawler, created, closed>>
  /\ CallRecordUnchanged

\* An endpoint or a job calls crawl_links: initialize(), then the links of the
\* start page are collected and n of them retained.
TaskLinks(t) ==
  \E surf \in {"http", "job"}, n \in 1..MaxElems :
    LET i == initialize(Svc, FALSE)
    IN /\ tasks[t].pc = "free"
       /\ i.s.created <= MaxCrawlers
       /\ crawler' = i.s.crawler /\ created' = i.s.created /\ closed' = i.s.closed
       /\ tasks' = [tasks EXCEPT ![t] = [Free EXCEPT !.surface = surf, !.op = "crawl_links",
                                                       !.pc = "links", !.n = n]]
       /\ CallRecordUnchanged

\* The loop begins the crawl of its next link.
LinkStart(t) ==
  /\ tasks[t].pc = "links" /\ tasks[t].started < tasks[t].n
  /\ NextLinkReady(tasks[t])
  /\ tasks' = [tasks EXCEPT ![t].started = @ + 1, ![t].flying = @ + 1]
  /\ UNCHANGED <<crawler, created, closed>>
  /\ CallRecordUnchanged

\* The crawl of a link is over, by a result or by an exception: it is recorded.
LinkFinish(t) ==
  /\ tasks[t].pc = "links" /\ tasks[t].flying > 0
  /\ tasks' = [tasks EXCEPT ![t].recorded = @ + 1, ![t].flying = @ - 1]
  /\ UNCHANGED <<crawler, created, closed>>
  /\ CallRecordUnchanged

\* The loop is through, and crawl_links returns.
LinksReturn(t) ==
  /\ tasks[t].pc = "links" /\ tasks[t].recorded = tasks[t].n
  /\ tasks' = [tasks EXCEPT ![t] = CallOver(tasks[t], crawler)]
  /\ UNCHANGED <<crawler, created, closed>>
  /\ CallRecordUnchanged

\* app.py shutdown_event: crawler_service.close() begins.
TaskShutdown(t) ==
  /\ tasks[t].pc = "free" /\ crawler # NoCrawler
  /\ tasks' = [tasks EXCEPT ![t] = CloseBegun(tasks[t], "shutdown", crawler)]
  /\ UNCHANGED <<crawler, created, closed>>
  /\ CallRecordUnchanged

\* self.crawler.close() returns: close() sets self.crawler to None.  When it
\* raises, close() is left and self.crawler stays.
CloseDone(t) ==
  \E fails \in BOOLEAN :
    /\ tasks[t].pc = "closing"
    /\ crawler' = IF fails THEN crawler ELSE NoCrawler
    /\ closed' = IF fails THEN closed ELSE closed \cup {tasks[t].inst}
    /\ tasks' = [tasks EXCEPT ![t] = Free]
    /\ UNCHANGED created
    /\ CallRecordUnchanged

TasksNext ==
  \E t \in TaskIds :
    \/ TaskArun(t) \/ TaskArunDone(t)
    \/ TaskLinks(t) \/ LinkStart(t) \/ LinkFinish(t) \/ LinksReturn(t)
    \/ TaskShutdown(t) \/ CloseDone(t)

Tasks == Init /\ [][TasksNext]_vars

\* ------------------------------------------------------------ properties
\* The eleven operation methods of CrawlerService.
ServiceMethods ==
  {"crawl", "extract", "generate_schema", "verify", "wait", "filter", "take_screenshot",
   "extract_pdf", "crawl_links", "generate_markdown", "generate_pdf"}
\* The methods that drive a page of their own through Playwright.
PageMethods == {"extract", "verify", "wait", "filter", "take_screenshot", "crawl_links"}
\* The action names of the eleven operation kinds, and the method of each.
MethodOf ==
  [crawl |-> "crawl", extract |-> "extract", generateSchema |-> "generate_schema",
   verify |-> "verify", wait |-> "wait", filter |-> "filter", crawlLinks |-> "crawl_links",
   screenshot |-> "take_screenshot", extractPdf |-> "extract_pdf",
   toMarkdown |-> "generate_markdown", toPdf |-> "generate_pdf"]
OperationKinds == DOMAIN MethodOf
\* The extraction types extract() knows.
ExtractTypes == {"text", "html", "attribute"}
\* A service method was called and handed a value back.
Returned == method \in ServiceMethods /\ ~obs.raised
\* v is a dict whose success field is the boolean b.
SuccessIs(v, b) == HasKey(v, "success") /\ v.d.success = b
\* v carries an error that is a non-empty string.
HasError(v) == HasKey(v, "error") /\ Truthy(v.d.error)

\* C1: whatever a service method returns, success=false comes with a non-empty
\* error string and success=true comes without an error field.
C1_Envelope ==
  Returned =>
    /\ SuccessIs(ret, FALSE) => HasError(ret)
    /\ SuccessIs(ret, TRUE) => ~HasKey(ret, "error")

\* C2: no service method raises to its caller, whichever step beneath it
\* fails: it returns success=false with an error message instead.
C2_NeverRaises ==
  method \in ServiceMethods =>
    /\ ~obs.raised
    /\ obs.init = "failed" => SuccessIs(ret, FALSE) /\ HasKey(ret, "error")

\* C3: crawler_service.close() is invoked before process_job returns, for
\* every job_data.
C3_JobAlwaysCloses == surface = "job" => resp.closeCalled

C5_JobEnvelope ==
  (surface = "job" /\ ~resp.raised) =>
    /\ HasKey(resp.val, "success")
    /\ SuccessIs(resp.val, FALSE) <=> HasError(resp.val)

\* C6: an endpoint answers 500, with the result's error as detail, exactly when
\* the result of the service has success=false.
C6_ErrorStatusIffFailure ==
  (surface = "http" /\ Returned /\ HasKey(ret, "success")) =>
    /\ resp.status = 500 <=> SuccessIs(ret, FALSE)
    /\ (resp.status = 500 /\ HasKey(ret, "error")) => resp.detail = ret.d.error

\* C7: a job calls the method its action names, as the endpoint does, and an
\* extract job hands extract() an extraction type it knows (text, html or
\* attribute), the caller's.
C7_JobCallsAsHttp ==
  (surface = "job" /\ method # "none") =>
    /\ action \in OperationKinds /\ method = MethodOf[action]
    /\ method = "extract" => args[3] \in ExtractTypes

\* C8: a job whose action is one of the eleven kinds is never answered with
\* "Unknown action type", and a job answered so called no service method.
C8_AllKindsDispatched ==
  (surface = "job" /\ ~resp.raised /\ HasKey(resp.val, "error")) =>
    LET unknown == resp.val.d.error = "Unknown action type: " \o action
    IN /\ action \in OperationKinds => ~unknown
       /\ unknown => method = "none"

\* C9: an operation that starts when close() has reset the session runs
\* initialize() anew: with no crawler it constructs a fresh one (or the
\* constructor raises), and arun never runs on an instance that was closed.
C9_ReinitAfterClose ==
  [][/\ obs'.arunOn # NoCrawler => ~obs'.arunOnClosed
     /\ (crawler = NoCrawler /\ obs'.init # "none") => obs'.init \in {"created", "failed"}
     /\ (crawler = NoCrawler /\ obs'.init = "created") =>
          created' = created + 1 /\ created' \notin closed]_vars
\* arun ran on a crawler constructed after an earlier one was closed.
C9_RanAfterClose ==
  /\ closed # {} /\ obs.init = "created"
  /\ obs.arunOn # NoCrawler /\ obs.arunOn \notin closed /\ ~obs.arunOnClosed

\* C10: when the constructor raises inside initialize(), self.crawler stays
\* None, and the next initialize() constructs again instead of reusing.
C10_FailedInitRetries ==
  [][/\ obs'.init = "failed" => crawler' = NoCrawler /\ created' = created
     /\ (obs.init = "failed" /\ obs'.init # "none") => obs'.init \in {"created", "failed"}]_vars
\* The constructor raised, and the session is without a crawler.
C10_InitFailed == obs.init = "failed" /\ obs.raised /\ crawler = NoCrawler

\* C11: the shared crawler is the only browser resource: no service method
\* launches a browser or constructs a crawler of its own.
C11_SingleBrowserResource ==
  method \in ServiceMethods => obs.launched = 0 /\ obs.linkCrawlers = 0

\* A single call of method m, in a world where no step beneath it raised.
Ran(m) == surface = "call" /\ method = m /\ world.fail = "none"
\* The resolved links of the page of the recorded crawl_links call.
PageLinks == CollectedLinks[<<args[1], world.page>>]
\* The URLs of the entries of a result list.
EntryUrls(l) == {l[k].url : k \in 1..Len(l)}
\* The k-th per-link crawl raised.
LinkRaised(k) == world.links[k] \in {"raise_new", "raise_arun", "raise_close"}

\* C12: the list crawl_links returns has exactly one entry per retained link,
\* in the links' order, whichever per-link crawls raise; the entry of a link
\* whose crawl raised is {url, success: false, error}.
C12_OneEntryPerLink ==
  Ran("crawl_links") =>
    LET links == Slice(PageLinks, args[4])
    IN /\ ~ret.isDict /\ Len(ret.l) = Len(links)
       /\ \A k \in 1..Len(links) :
            /\ ret.l[k].url = links[k]
            /\ LinkRaised(k) => ret.l[k] = [url |-> links[k], success |-> FALSE, error |-> world.msg]

C14_LinkResolution ==
  (surface = "apply" /\ action = "ResolveLink") =>
    LET u == bag.url
        h == bag.href
        t == UrlText(u)
        expected == IF StartsWith(h, "http") THEN h
                    ELSE IF StartsWith(h, "/") THEN u.scheme \o "://" \o u.authority \o h
                    ELSE IF EndsWith(t, "/") THEN t \o h
                    ELSE t \o "/" \o h
    IN ret.l = <<expected>>

\* C15: an extract call that does not fail returns one entry per matched
\* element, in document order; with type "attribute" the entry of an element
\* that lacks the attribute is None.
C15_ExtractOnePerElement ==
  Ran("extract") =>
    /\ ~ret.isDict /\ Len(ret.l) = Len(world.page)
    /\ \A k \in 1..Len(world.page) :
         ret.l[k] = CASE args[3] = "text" -> world.page[k].text
                      [] args[3] = "html" -> world.page[k].html
                      [] args[3] = "attribute" -> GetAttr(world.page[k], args[4])
                      [] OTHER -> ret.l[k]

\* c is of the form name.includes(<literal>).
IsForm(c, name) == StartsWith(c, name \o ".includes(") /\ EndsWith(c, ")")
\* C16: a condition that is neither href.includes(<literal>) nor
\* text.includes(<literal>) parses to a text predicate over the whole string.
C16_FallbackIsWholeText ==
  (surface = "apply" /\ action = "ParseCondition"
     /\ ~IsForm(args[1], "href") /\ ~IsForm(args[1], "text")) =>
    ret.d = [type |-> "text", value |-> args[1]]

\* The value the predicate c reads from the element el: its href or its text.
Read(c, el) == IF c.type = "href" THEN GetAttr(el, "href") ELSE el.text
\* The predicate c holds of el: the value is there and contains the literal;
\* with nonEmpty, the value must not be the empty string either.
Holds(c, el, nonEmpty) ==
  /\ Read(c, el) # None
  /\ nonEmpty => Read(c, el) # ""
  /\ Contains(Read(c, el), c.value)
\* The elements of page of which c holds, in document order, as filter shows them.
RECURSIVE Selected(_, _, _)
Selected(page, c, nonEmpty) ==
  IF page = <<>> THEN <<>>
  ELSE LET el == Head(page)
           shown == IF c.type = "href" THEN [text |-> el.text, href |-> GetAttr(el, "href")]
                    ELSE [text |-> el.text]
       IN (IF Holds(c, el, nonEmpty) THEN <<shown>> ELSE <<>>)
            \o Selected(Tail(page), c, nonEmpty)
C18_VerifyReport ==
  Ran("verify") =>
    LET page == world.page
        some == \E k \in 1..Len(page) : Contains(page[k].text, args[3])
    IN /\ SuccessIs(ret, TRUE)
       /\ ret.d.exists = (Len(page) > 0)
       /\ ret.d.content_matches = IF args[3] = None THEN None ELSE PyBool(some)

\* wait_for timed out and the selector matches no element.
NothingAppeared == Ran("wait") /\ ~world.visible /\ world.page = <<>>
\* C19: wait on a selector that matches nothing by the end of the timeout
\* returns success=false with an error that names the selector or the timeout.
C19_WaitAbsentFails ==
  NothingAppeared =>
    /\ SuccessIs(ret, FALSE) /\ HasError(ret)
    /\ Contains(ret.d.error, args[2]) \/ Contains(ret.d.error, "imeout")
\* Such a wait returned the failure.
C19_WaitTimedOut == NothingAppeared /\ SuccessIs(ret, FALSE)

\* The content generate_markdown / generate_pdf takes from arun's result.
Generated == IF method = "generate_markdown" THEN world.res.markdown ELSE world.res.pdf
\* C20: generate_markdown and generate_pdf return success=false when arun
\* reports failure or the generated content is empty or absent, and write no
\* file then; a file is written only when they return success=true.
C20_NoEmptySuccess ==
  (surface = "call" /\ method \in {"generate_markdown", "generate_pdf"}) =>
    /\ (world.fail \notin {"init", "arun"} /\ (~world.res.success \/ ~Truthy(Generated))) =>
         SuccessIs(ret, FALSE) /\ ~obs.wrote
    /\ obs.wrote => SuccessIs(ret, TRUE)
\* arun succeeded without content, and the method failed without writing.
C20_EmptyContentFailed ==
  /\ surface = "call" /\ method \in {"generate_markdown", "generate_pdf"}
  /\ world.fail = "none" /\ world.res.success /\ ~Truthy(Generated)
  /\ SuccessIs(ret, FALSE) /\ ~obs.wrote

\* The content-type names a PDF: its media type is application/pdf.
IsPdfType(ctype) == ctype # None /\ SplitHead(ctype, ";") = "application/pdf"
C22_LinkCrawlersClosed ==
  (surface = "call" /\ method = "crawl_links") => obs.linkOpen = 0

\* C26: href.includes(<quote>L<quote>) parses to the href predicate with literal
\* exactly L, and text.includes(<quote>L<quote>) to the text predicate with
\* literal exactly L, whatever characters L holds.
C26_LiteralKept ==
  (surface = "apply" /\ action = "ParseCall") =>
    ret.d = [type |-> bag.name, value |-> bag.literal]

\* C27: wait returns success=true only when an element matching the selector
\* became visible within the timeout.
C27_SuccessOnlyIfVisible ==
  (Ran("wait") /\ SuccessIs(ret, TRUE)) => world.visible

\* C28: when a schema is supplied, the schema crawl and crawl_links hand to the
\* extraction strategy holds a baseSelector: the caller's, or "body".
C28_BaseSelectorHanded ==
  (/\ surface = "call" /\ method \in {"crawl", "crawl_links"} /\ obs.handed # <<>>
   /\ method = "crawl_links" => obs.linkCrawlers > 0) =>
    LET schema == args[IF method = "crawl" THEN 2 ELSE 3]
    IN /\ "baseSelector" \in DOMAIN obs.handed
       /\ obs.handed.baseSelector =
            IF "baseSelector" \in DOMAIN schema THEN schema.baseSelector ELSE "body"

\* C24: a call through an HTTP endpoint, failed or not, leaves the shared
\* crawler as it found it: the instance is neither closed nor replaced, and
\* initialize() constructs one only when there was none.
C24_HttpKeepsSession ==
  [][surface' = "http" =>
       /\ closed' = closed
       /\ crawler # NoCrawler => crawler' = crawler /\ created' = created
       /\ obs'.init \in {"created", "reused"} => crawler' # NoCrawler /\ crawler' \notin closed'
       /\ obs'.init = "reused" <=> (method' # "extract_pdf" /\ crawler # NoCrawler)]_vars
\* An HTTP call failed on a service whose crawler was there, and the crawler still is.
C24_FailedCallKeptSession ==
  /\ surface = "http" /\ obs.init = "reused" /\ SuccessIs(ret, FALSE) /\ crawler # NoCrawler

\* No close() of the shared crawler has begun so far.
NoCloseYet == closed = {} /\ \A t \in TaskIds : tasks[t].pc # "closing"
\* C23: calls that run at the same time on a service without a crawler
\* construct one instance between them, and each runs arun on that instance,
\* as long as no close() intervenes.
C23_InitSerialized ==
  NoCloseYet =>
    /\ created <= 1
    /\ created = 1 => crawler = 1
    /\ \A t \in TaskIds : tasks[t].pc = "arun" => tasks[t].inst = 1
\* Two calls run arun at the same time, on the one instance constructed.
C23_TwoCallsOneInstance ==
  /\ NoCloseYet /\ created = 1
  /\ \E t, u \in TaskIds : t # u /\ tasks[t].pc = "arun" /\ tasks[u].pc = "arun"
                             /\ tasks[t].inst = 1 /\ tasks[u].inst = 1

\* C25: within a crawl_links call at most one per-link crawl is under way, and
\* the crawl of a link begins only when the links before it are recorded.
C25_LinksSequential ==
  \A t \in TaskIds :
    tasks[t].pc = "links" =>
      /\ tasks[t].flying <= 1
      /\ tasks[t].recorded + tasks[t].flying = tasks[t].started
\* The crawl of a second link is under way, the first link being recorded.
C25_SecondLinkUnderWay ==
  \E t \in TaskIds :
    tasks[t].pc = "links" /\ tasks[t].started = 2 /\ tasks[t].recorded = 1 /\ tasks[t].flying = 1

\* The instances constructed that self.crawler no longer names, whose close()
\* has not returned and is not under way.
Unreachable ==
  {c \in 1..created :
     c # crawler /\ c \notin closed
       /\ \A t \in TaskIds : ~(tasks[t].pc = "closing" /\ tasks[t].inst = c)}
\* C29: no crawler instance becomes unreachable without having been closed:
\* close() sets self.crawler to None only over the instance it closed.
C29_NoInstanceLost == Unreachable = {}

\* C30: the shared crawler is not being closed, nor closed, while a call runs
\* arun on it.
C30_NoCloseUnderArun ==
  \A t \in TaskIds :
    tasks[t].pc = "arun" =>
      /\ tasks[t].inst \notin closed
      /\ \A u \in TaskIds : tasks[u].pc = "closing" => tasks[u].inst # tasks[t].inst

\* C31: process_job hands a result back for every job and never raises, also
\* when the close after the job fails.
C31_JobNeverRaises == surface = "job" => ~resp.raised

\* C32: crawl_links returns no more entries than max_depth, and for
\* max_depth <= 0 it crawls no link and returns the empty list.
C32_AtMostMaxDepth ==
  Ran("crawl_links") =>
    /\ ~ret.isDict
    /\ Len(ret.l) <= (IF args[4] > 0 THEN args[4] ELSE 0)
    /\ args[4] <= 0 => obs.linkCrawlers = 0

\* The parameters each dispatched action requires of its job.
Required ==
  [crawl |-> {"url"}, extract |-> {"url", "selector"}, generateSchema |-> {"url", "prompt"},
   verify |-> {"url", "selector"}, crawlLinks |-> {"url", "linkSelector"},
   wait |-> {"url", "selector"}, filter |-> {"url", "selector", "condition"}]
\* The last call was a job of a dispatched action that lacks a required parameter.
LacksParameter ==
  /\ surface = "job" /\ action \in DOMAIN Required
  /\ \E k \in Required[action] : ~Truthy(Get(bag, k))
\* C33: a job that lacks a parameter its action requires calls no service
\* operation: initialize() is not run and no browser is launched for it, and
\* what the worker hands back is an error.
C33_RejectedWithoutService ==
  LacksParameter =>
    /\ method = "none" /\ obs = Idle
    /\ ~resp.raised => HasKey(resp.val, "error") /\ ~HasKey(resp.val, "success")
\* A filter job with url and selector and no condition was rejected.
C33_FilterJobRejected ==
  /\ LacksParameter /\ action = "filter"
  /\ Truthy(Get(bag, "url")) /\ Truthy(Get(bag, "selector"))
  /\ method = "none" /\ ~resp.raised /\ HasKey(resp.val, "error")

====
